---- MODULE Spec2Model ----
(***************************************************************************)
(* MDE Visualizer (src/main.py): the Streamlit script main() and the       *)
(* formula calculate_mde().                                                *)
(*                                                                         *)
(* Numbers.  Python floats are modelled by exact values, without the       *)
(* rounding of IEEE doubles:                                               *)
(*   - a probability given in percent is an integer (80 is 0.80);          *)
(*   - baseline_rate is a rational [num, den];                             *)
(*   - a quantile of norm.ppf is a fixed-point integer in units of         *)
(*     1/ZScale, or one of the IEEE specials;                              *)
(*   - every value derived through np.sqrt (term2, the MDE) is an          *)
(*     "X value": NaN, +inf, -inf, or a finite value kept as its sign and  *)
(*     the square of its magnitude, n/d, with n and d arbitrary-precision  *)
(*     naturals (TLC's integers are 32 bits wide).                         *)
(***************************************************************************)
EXTENDS Integers, Sequences, FiniteSets

VARIABLES
    pc,               \* position of the script run: idle, apply, computed, done
    confidence_level, \* main.py:85, percent
    power,            \* main.py:86, percent
    baseline_rate,    \* main.py:100, rational [num, den]
    daily_traffic,    \* main.py:102
    max_days,         \* main.py:105
    df,               \* main.py:111, rows [Day, SS, Total] (SS: Sample Size Per Variation)
    mde,              \* main.py:118, the 'MDE (%)' values .apply has produced so far
    ppfCalls,         \* history: norm.ppf evaluations of this run
    zUsed,            \* history: the (z_alpha, z_beta) each value of mde was computed from
    summary,          \* main.py:130-131, last_day and last_mde
    download,         \* main.py:150-155, data and file_name of the download button
    today,            \* pd.Timestamp.now(), as a day number
    prev              \* history: inputs, table and download of the previous finished run

params == <<confidence_level, power, baseline_rate, daily_traffic, max_days>>
vars == <<pc, confidence_level, power, baseline_rate, daily_traffic, max_days,
          df, mde, ppfCalls, zUsed, summary, download, today, prev>>

----------------------------------------------------------------------------
(* Bounds of the model *)

MaxDays == 3
MaxDate == 1

(* Units: a probability of 1 in percent and in half percents, the fixed    *)
(* point of the quantiles, the digit base of the naturals.                 *)
Percent == 10 * 10
HalfPercent == 2 * Percent
ZScale == 10 * Percent
Base == Percent * Percent

----------------------------------------------------------------------------
(* Arbitrary-precision naturals: little-endian digit sequences in base     *)
(* Base, << >> is zero, the most significant digit is never 0.             *)

Abs(x) == IF x < 0 THEN -x ELSE x
Sign(x) == IF x < 0 THEN -1 ELSE IF x = 0 THEN 0 ELSE 1

RECURSIVE ToBig(_)
ToBig(k) == IF k = 0 THEN << >> ELSE <<k % Base>> \o ToBig(k \div Base)

RECURSIVE BigMulCarry(_, _, _)
BigMulCarry(a, k, c) ==
    IF a = << >> THEN ToBig(c)
    ELSE LET v == Head(a) * k + c
         IN  <<v % Base>> \o BigMulCarry(Tail(a), k, v \div Base)

\* a * k for a natural k below 2^31 / Base (TLC's integers are 32 bits wide)
BigMulSmall(a, k) == IF k = 0 THEN << >> ELSE BigMulCarry(a, k, 0)

RECURSIVE BigAddCarry(_, _, _)
BigAddCarry(a, b, c) ==
    IF a = << >> /\ b = << >> THEN ToBig(c)
    ELSE LET x == IF a = << >> THEN 0 ELSE Head(a)
             y == IF b = << >> THEN 0 ELSE Head(b)
             s == x + y + c
         IN  <<s % Base>> \o BigAddCarry(IF a = << >> THEN a ELSE Tail(a),
                                         IF b = << >> THEN b ELSE Tail(b),
                                         s \div Base)

BigShift(a) == IF a = << >> THEN a ELSE <<0>> \o a

RECURSIVE BigMul(_, _)
BigMul(a, b) ==
    IF a = << >> \/ b = << >> THEN << >>
    ELSE BigAddCarry(BigMulSmall(a, Head(b)), BigShift(BigMul(a, Tail(b))), 0)

RECURSIVE BigCmpFrom(_, _, _)
BigCmpFrom(a, b, i) ==
    IF i = 0 THEN 0
    ELSE IF a[i] # b[i] THEN Sign(a[i] - b[i])
    ELSE BigCmpFrom(a, b, i - 1)

\* -1, 0, 1 as a < b, a = b, a > b
BigCmp(a, b) ==
    IF Len(a) # Len(b) THEN Sign(Len(a) - Len(b)) ELSE BigCmpFrom(a, b, Len(a))

BigSq(k) == BigMul(ToBig(Abs(k)), ToBig(Abs(k)))

----------------------------------------------------------------------------
(* X values: IEEE specials and exact finite values sgn * sqrt(n / d).      *)

NaN == [kind |-> "nan"]
PosInf == [kind |-> "inf"]
NegInf == [kind |-> "ninf"]
Fin(s, n, d) == [kind |-> "fin", sgn |-> s, n |-> IF s = 0 THEN << >> ELSE n,
                 d |-> IF s = 0 THEN <<1>> ELSE d]

IsFinite(x) == x.kind = "fin"
XSign(x) == CASE x.kind = "inf" -> 1
              [] x.kind = "ninf" -> -1
              [] x.kind = "fin" -> x.sgn
              [] OTHER -> 0
Signed(s) == IF s > 0 THEN PosInf ELSE NegInf

XOfInt(k) == Fin(Sign(k), BigSq(k), <<1>>)
XOfRat(q) == Fin(Sign(q.num), BigSq(q.num), BigSq(q.den))
\* a finite quantile sum in units of 1/ZScale, or a special
XOfFixed(z) == IF z.kind = "fin" THEN Fin(Sign(z.v), BigSq(z.v), BigSq(ZScale)) ELSE [kind |-> z.kind]

\* IEEE multiplication: nan is absorbing, inf * 0 = nan
XMul(a, b) ==
    CASE a.kind = "nan" \/ b.kind = "nan" -> NaN
      [] IsFinite(a) /\ IsFinite(b) ->
             Fin(a.sgn * b.sgn, BigMul(a.n, b.n), BigMul(a.d, b.d))
      [] OTHER -> IF XSign(a) * XSign(b) = 0 THEN NaN ELSE Signed(XSign(a) * XSign(b))

\* IEEE division as numpy does it (a warning, never an exception):
\* x / 0 = +-inf, 0 / 0 = nan, inf / inf = nan, x / inf = 0
XDiv(a, b) ==
    CASE a.kind = "nan" \/ b.kind = "nan" -> NaN
      [] IsFinite(a) /\ IsFinite(b) ->
             IF b.sgn = 0
             THEN (IF a.sgn = 0 THEN NaN ELSE Signed(a.sgn))
             ELSE Fin(a.sgn * b.sgn, BigMul(a.n, b.d), BigMul(a.d, b.n))
      [] IsFinite(a) -> Fin(0, << >>, <<1>>)
      [] IsFinite(b) -> Signed(XSign(a) * (IF b.sgn < 0 THEN -1 ELSE 1))
      [] OTHER -> NaN

\* magnitude comparison of two finite values: -1, 0, 1
MagCmp(a, b) == BigCmp(BigMul(a.n, b.d), BigMul(b.n, a.d))

\* a < b on floats: false when either is nan
XLess(a, b) ==
    CASE a.kind = "nan" \/ b.kind = "nan" -> FALSE
      [] IsFinite(a) /\ IsFinite(b) ->
             IF a.sgn # b.sgn THEN a.sgn < b.sgn
             ELSE IF a.sgn > 0 THEN MagCmp(a, b) < 0
             ELSE IF a.sgn < 0 THEN MagCmp(a, b) > 0
             ELSE FALSE
      [] a.kind = b.kind -> FALSE
      [] OTHER -> a.kind = "ninf" \/ b.kind = "inf"

\* a == b on floats: false when either is nan
XEq(a, b) ==
    CASE a.kind = "nan" \/ b.kind = "nan" -> FALSE
      [] IsFinite(a) /\ IsFinite(b) -> a.sgn = b.sgn /\ (a.sgn = 0 \/ MagCmp(a, b) = 0)
      [] OTHER -> a.kind = b.kind

\* np.sqrt of the signed rational [sgn, n, d]: nan below zero (a warning)
np_sqrt(r) == IF r.sgn < 0 THEN NaN ELSE Fin(r.sgn, r.n, r.d)

----------------------------------------------------------------------------
(* scipy.stats.norm.ppf on the grid of half percents, h = 200 * q, rounded *)
(* to 1/ZScale: -inf at 0, +inf at 1, nan outside [0, 1], odd about 1/2.   *)

PpfUpper == <<13, 25, 38, 50, 63, 75, 88, 100, 113, 126, 138, 151, 164, 176, 189,
    202, 215, 228, 240, 253, 266, 279, 292, 305, 319, 332, 345, 358, 372, 385,
    399, 412, 426, 440, 454, 468, 482, 496, 510, 524, 539, 553, 568, 583, 598,
    613, 628, 643, 659, 674, 690, 706, 722, 739, 755, 772, 789, 806, 824, 842,
    860, 878, 896, 915, 935, 954, 974, 994, 1015, 1036, 1058, 1080, 1103, 1126,
    1150, 1175, 1200, 1227, 1254, 1282, 1311, 1341, 1372, 1405, 1440, 1476,
    1514, 1555, 1598, 1645, 1695, 1751, 1812, 1881, 1960, 2054, 2170, 2326, 2576>>

FinZ(v) == [kind |-> "fin", v |-> v]

norm_ppf(h) ==
    CASE h < 0 \/ h > HalfPercent -> [kind |-> "nan"]
      [] h = 0 -> [kind |-> "ninf"]
      [] h = HalfPercent -> [kind |-> "inf"]
      [] h = Percent -> FinZ(0)
      [] h > Percent -> FinZ(PpfUpper[h - Percent])
      [] OTHER -> FinZ(-PpfUpper[Percent - h])

\* float addition of two quantiles: inf + -inf = nan
ZAdd(a, b) ==
    CASE a.kind = "nan" \/ b.kind = "nan" -> [kind |-> "nan"]
      [] a.kind = "fin" /\ b.kind = "fin" -> FinZ(a.v + b.v)
      [] a.kind = "fin" -> b
      [] b.kind = "fin" -> a
      [] a.kind = b.kind -> a
      [] OTHER -> [kind |-> "nan"]

----------------------------------------------------------------------------
(* calculate_mde, main.py:16-26 *)

\* line 18
DegenerateLoose(b, n) == b.num < 0 \/ n < 0
Degenerate(b, n) == b.num <= 0 \/ n <= 0

\* line 20
alpha(cl) == Percent - cl
\* line 21: norm.ppf(1 - alpha / 2)
z_alpha(cl) == norm_ppf(HalfPercent - alpha(cl))
\* line 22: norm.ppf(power)
z_beta(pw) == norm_ppf(2 * pw)
\* line 23
term1(cl, pw) == ZAdd(z_alpha(cl), z_beta(pw))

\* 2 * baseline_rate * (1 - baseline_rate) / sample_size for n # 0, as a signed
\* rational
Radicand(b, n) ==
    [sgn |-> Sign(b.num) * Sign(b.den - b.num) * Sign(n),
     n   |-> BigMulSmall(BigMulSmall(ToBig(2), Abs(b.num)), Abs(b.den - b.num)),
     d   |-> BigMulSmall(BigMulSmall(ToBig(b.den), b.den), Abs(n))]
term2NoSqrt(b, n) ==
    IF n = 0
    THEN (IF Sign(b.num) * Sign(b.den - b.num) > 0 THEN PosInf ELSE NaN)
    ELSE Fin(Radicand(b, n).sgn, BigMul(Radicand(b, n).n, Radicand(b, n).n),
             BigMul(Radicand(b, n).d, Radicand(b, n).d))
\* line 24; numpy divides by a zero sample size without raising: x / 0 is +-inf
\* or nan, and np.sqrt of it is +inf or nan
term2(b, n) ==
    IF n = 0
    THEN (IF Sign(b.num) * Sign(b.den - b.num) > 0 THEN PosInf ELSE NaN)
    ELSE np_sqrt(Radicand(b, n))
\* line 25
mde_proportion(cl, pw, b, n) == XDiv(XMul(XOfFixed(term1(cl, pw)), term2(b, n)), XOfRat(b))
\* line 26
Formula(cl, pw, b, n) == XMul(mde_proportion(cl, pw, b, n), XOfInt(Percent))

\* One call, with what it evaluated: the value returned, the number of norm.ppf
\* evaluations and the critical values used (<< >> when the guard returned).
CallHoisted(cl, pw, b, n) ==
    IF Degenerate(b, n)
    THEN [value |-> PosInf, ppf |-> 0, z |-> << >>]
    ELSE [value |-> Formula(cl, pw, b, n), ppf |-> 0, z |-> <<z_alpha(cl), z_beta(pw)>>]
Call(cl, pw, b, n) ==
    IF Degenerate(b, n)
    THEN [value |-> PosInf, ppf |-> 0, z |-> << >>]
    ELSE [value |-> Formula(cl, pw, b, n), ppf |-> 2, z |-> <<z_alpha(cl), z_beta(pw)>>]

calculate_mde(cl, pw, b, n) == Call(cl, pw, b, n).value

----------------------------------------------------------------------------
(* Inputs.  The values a caller can hand to the core, and the part of them *)
(* the sidebar widgets of main() let through.                              *)

AlphaValues == {0, 1, 10, 20, 50, 90, 100}            \* percent
PowerValues == {0, 2, 25, 70, 80, 99, 100}            \* percent
BaselinePercentValues == {0, 1, 500, 9999, 10000, 15000}   \* hundredths of a percent
TrafficValues == {-10, 0, 10, 20}
DaysValues == -1 .. MaxDays

\* line 85: st.slider(min_value=0.01, max_value=0.20)
AlphaSlider == {a \in AlphaValues : 1 <= a /\ a <= 20}
\* line 86: st.slider(min_value=0.70, max_value=0.99)
PowerSlider == {w \in PowerValues : 70 <= w /\ w <= 99}
\* lines 91-98: st.number_input(min_value=0.01, max_value=99.99)
BaselineInput == {p \in BaselinePercentValues : 1 <= p /\ p <= 9999}
\* line 102: st.number_input(min_value=10)
TrafficInputFromZero == {t \in TrafficValues : 0 <= t}
TrafficInput == {t \in TrafficValues : 10 <= t}
\* line 105: st.slider(min_value=1, max_value=90)
DaysSlider == {d \in DaysValues : 1 <= d /\ d <= 90}

\* line 100: baseline_rate_percent / 100.0
ToProportion(p) == [num |-> p, den |-> Percent * Percent]

----------------------------------------------------------------------------
(* The data frame, main.py:108-120 *)

\* line 108: np.arange(1, max_days + 1)
days_arrayShort(d) == [i \in 1 .. (IF d < 1 THEN 0 ELSE d - 1) |-> i]
days_array(d) == [i \in 1 .. (IF d < 0 THEN 0 ELSE d) |-> i]
\* line 109
n_valuesFlat(days, t) == [i \in 1 .. Len(days) |-> t]
n_valuesSinceDate(days, t) == [i \in 1 .. Len(days) |-> (days[i] + today) * t]
n_values(days, t) == [i \in 1 .. Len(days) |-> days[i] * t]
\* line 114
Total(n, t) == n * 2
\* lines 111-115
Frame(d, t) ==
    LET days == days_array(d)
        ns == n_values(days, t)
    IN  [i \in 1 .. Len(days) |-> [Day |-> days[i], SS |-> ns[i], Total |-> Total(ns[i], t)]]

\* line 118: the element .apply hands to the lambda
ApplyArgTotal(r) == r.Total
ApplyArg(r) == r.SS

\* the rows of df once 'MDE (%)' is assigned (and of its prefix before)
Table == [i \in 1 .. Len(mde) |->
            [Day |-> df[i].Day, SS |-> df[i].SS, Total |-> df[i].Total, MDE |-> mde[i]]]

\* line 152: df.to_csv(index=False): the header, then one record per row
to_csv(t) == <<<<"Day", "Sample Size Per Variation", "Total Sample Size", "MDE (%)">>>>
             \o [i \in 1 .. Len(t) |-> <<t[i].Day, t[i].SS, t[i].Total, t[i].MDE>>]
\* line 153
file_name(day) == <<"mde_projection_", day, ".csv">>

None == [set |-> FALSE]

----------------------------------------------------------------------------
(* The script *)

Init ==
    /\ pc = "idle"
    /\ confidence_level = 0 /\ power = 0 /\ baseline_rate = ToProportion(0)
    /\ daily_traffic = 0 /\ max_days = 0
    /\ df = << >> /\ mde = << >> /\ ppfCalls = 0 /\ zUsed = << >>
    /\ summary = None /\ download = None /\ prev = None
    /\ today = 0

\* lines 108-115 for five given values
Build(cl, pw, b, t, d) ==
    /\ confidence_level' = cl /\ power' = pw /\ baseline_rate' = b
    /\ daily_traffic' = t /\ max_days' = d
    /\ df' = Frame(d, t)
    /\ mde' = << >> /\ ppfCalls' = 0 /\ zUsed' = << >>
    /\ summary' = None /\ download' = None
    /\ pc' = IF Len(Frame(d, t)) = 0 THEN "computed" ELSE "apply"

\* the widget values of the run whose results are on the page
Widgets == <<Percent - confidence_level, power, baseline_rate.num, daily_traffic, max_days>>

\* the number of widgets whose value differs between two settings
Differs(x, y) == IF x = y THEN 0 ELSE 1
Changed(u, v) == Differs(u[1], v[1]) + Differs(u[2], v[2]) + Differs(u[3], v[3])
                 + Differs(u[4], v[4]) + Differs(u[5], v[5])

\* lines 80-115: a (re)run of main() reads the widgets and builds the frame.
\* The first run of the model starts from any setting of the widgets; after it,
\* Streamlit reruns the script on each interaction, so a rerun sees at most one
\* widget changed (none: a rerun by the download button or the rerun key).
Sidebar ==
    /\ pc \in {"idle", "done"}
    /\ \E a \in AlphaSlider, w \in PowerSlider, p \in BaselineInput,
          t \in TrafficInput, d \in DaysSlider :
            /\ pc = "done" => Changed(Widgets, <<a, w, p, t, d>>) <= 1
            /\ Build(Percent - a, w, ToProportion(p), t, d)
    /\ prev' = IF pc = "done"
               THEN [set |-> TRUE, params |-> params, table |-> Table,
                     file_name |-> download.file_name]
               ELSE prev
    /\ UNCHANGED today

\* lines 108-120 called once with any five scalars, without the widgets
Project ==
    /\ pc = "idle"
    /\ \E a \in AlphaValues, w \in PowerValues, p \in BaselinePercentValues,
          t \in TrafficValues, d \in DaysValues :
            Build(Percent - a, w, ToProportion(p), t, d)
    /\ UNCHANGED <<today, prev>>

\* lines 118-120: .apply calls the lambda on the next element; the column is
\* assigned when the last one is done
ApplyRow ==
    /\ pc = "apply"
    /\ \E i \in {Len(mde) + 1} :
       \E c \in {Call(confidence_level, power, baseline_rate, ApplyArg(df[i]))} :
           /\ mde' = Append(mde, c.value)
           /\ ppfCalls' = ppfCalls + c.ppf
           /\ zUsed' = Append(zUsed, c.z)
           /\ pc' = IF i = Len(df) THEN "computed" ELSE "apply"
    /\ UNCHANGED <<params, df, summary, download, today, prev>>

\* lines 123-155: chart, summary line, table and download button
Render ==
    /\ pc = "computed"
    /\ summary' = [set |-> TRUE, last_day |-> df[Len(df)].Day, last_mde |-> mde[Len(mde)]]
    /\ download' = [set |-> TRUE, data |-> to_csv(Table), file_name |-> file_name(today)]
    /\ pc' = "done"
    /\ UNCHANGED <<params, df, mde, ppfCalls, zUsed, today, prev>>

\* midnight passes
NextDay ==
    /\ today < MaxDate
    /\ today' = today + 1
    /\ UNCHANGED <<pc, params, df, mde, ppfCalls, zUsed, summary, download, prev>>

\* the application
Next == Sidebar \/ ApplyRow \/ Render \/ NextDay
Spec == Init /\ [][Next]_vars

\* the core of lines 16-26 and 108-120 under any caller
NextCore == Project \/ ApplyRow
SpecCore == Init /\ [][NextCore]_vars

----------------------------------------------------------------------------
(* Properties *)

Rows == 1 .. Len(mde)
Alpha == Percent - confidence_level
InsideUnit(x) == 0 < x /\ x < Percent
BaselineInside == 0 < baseline_rate.num /\ baseline_rate.num < baseline_rate.den
Boundary == Alpha \in {0, Percent} \/ power \in {0, Percent}
TermOnePositive == term1(confidence_level, power).kind = "fin" /\ term1(confidence_level, power).v > 0
Square(x) == XMul(x, x)

\* C1: with alpha or power at 0 or 1, a valid baseline rate and a positive
\* sample size, calculate_mde reports an error: no MDE value is ever returned
\* for such a row.
C1_BoundaryRejected ==
    (Boundary /\ BaselineInside /\ daily_traffic > 0) => mde = << >>

\* C2: a parameter set with baselineRate outside (0,1), dailyTraffic < 1 or
\* horizonDays < 1 is refused before any row is computed: the finished
\* projection has zero rows and no MDE value was computed from the set.
C2_InvalidGivesNoRows ==
    (pc = "computed" /\ (~BaselineInside \/ daily_traffic < 1 \/ max_days < 1))
        => (df = << >> /\ mde = << >>)

\* C3 (as claimed): for alpha, power and baselineRate inside (0,1) and
\* dailyTraffic > 0, the MDE of day d+1 is strictly less than that of day d.
C3_StrictlyDecreasing ==
    (InsideUnit(Alpha) /\ InsideUnit(power) /\ BaselineInside /\ daily_traffic > 0)
        => \A i \in Rows : i + 1 \in Rows => XLess(mde[i + 1], mde[i])

\* C3 (amended): the same, when moreover z_alpha + z_beta > 0 (as it is for
\* every power >= 0.5); when the sum is 0 or negative the MDE does not decrease.
C3_DecreasingWhenTermPositive ==
    (InsideUnit(Alpha) /\ InsideUnit(power) /\ BaselineInside /\ daily_traffic > 0)
        => /\ (TermOnePositive \/ power >= 50)
                => \A i \in Rows : i + 1 \in Rows => XLess(mde[i + 1], mde[i])
           /\ ~TermOnePositive
                => \A i \in Rows : i + 1 \in Rows => ~XLess(mde[i + 1], mde[i])
C3_Witness ==
    /\ pc = "computed" /\ Len(mde) = MaxDays /\ MaxDays >= 2
    /\ InsideUnit(Alpha) /\ power = 25 /\ BaselineInside /\ daily_traffic > 0
    /\ TermOnePositive
    /\ XLess(mde[2], mde[1])

\* C4: a projection with horizonDays = H >= 0 has exactly H rows, whose Day
\* values are 1..H in order, and each row has exactly one MDE value.
C4_RowCount ==
    /\ max_days >= 0 => (Len(df) = max_days /\ \A i \in 1 .. Len(df) : df[i].Day = i)
    /\ Len(mde) <= Len(df)
    /\ pc = "computed" => (Len(mde) = Len(df) /\ Len(Table) = Len(df))
C4_Witness ==
    pc = "computed" /\ max_days = MaxDays /\ Len(Table) = MaxDays
        /\ Table[MaxDays].Day = MaxDays /\ Table[1].Day = 1

\* C5: in every row, Sample Size Per Variation = Day * dailyTraffic, Total
\* Sample Size = 2 * Sample Size Per Variation, and the MDE is the one of the
\* row's own per-variation sample size.
C5_RowContents ==
    /\ \A i \in 1 .. Len(df) :
          df[i].SS = df[i].Day * daily_traffic /\ df[i].Total = 2 * df[i].SS
    /\ \A i \in Rows :
          mde[i] = calculate_mde(confidence_level, power, baseline_rate, df[i].SS)
C5_Witness ==
    /\ pc = "computed" /\ Len(mde) >= 2
    /\ IsFinite(mde[2]) /\ mde[2].sgn > 0
    /\ ~XEq(mde[2], calculate_mde(confidence_level, power, baseline_rate, df[2].Total))
    /\ ~XEq(mde[2], mde[1])

\* C6: whenever baselineRate <= 0 or the sample size is <= 0 the row's MDE is
\* +infinity, whatever the confidence level and power, and no quantile was
\* evaluated for it; with baselineRate = 0.05 and dailyTraffic = 0 the run
\* completes with +infinity in every row.
C6_DegenerateIsInfinity ==
    /\ \A i \in Rows :
          (baseline_rate.num <= 0 \/ df[i].SS <= 0) => (mde[i] = PosInf /\ zUsed[i] = << >>)
    /\ ppfCalls = 2 * Cardinality({i \in Rows : baseline_rate.num > 0 /\ df[i].SS > 0})
    /\ (pc = "computed" /\ baseline_rate = ToProportion(500) /\ daily_traffic = 0)
          => (Len(mde) = Len(df) /\ \A i \in Rows : mde[i] = PosInf)
C6_Witness ==
    /\ pc = "computed" /\ baseline_rate = ToProportion(500) /\ daily_traffic = 0
    /\ Alpha = 0 /\ power = 0
    /\ Len(mde) = MaxDays /\ \A i \in Rows : mde[i] = PosInf
    /\ ppfCalls = 0

\* C7: with alpha, power, baselineRate and the day fixed, doubling dailyTraffic
\* halves the squared MDE of that day (the MDE shrinks by exactly 1/sqrt(2)).
DoubledTraffic ==
    /\ prev.set
    /\ prev.params[1] = confidence_level /\ prev.params[2] = power
    /\ prev.params[3] = baseline_rate /\ prev.params[5] = max_days
    /\ daily_traffic = 2 * prev.params[4]
C7_ScalingLaw ==
    DoubledTraffic =>
        \A i \in Rows :
            /\ df[i].SS = 2 * prev.table[i].SS
            /\ XEq(Square(mde[i]), XDiv(Square(prev.table[i].MDE), XOfInt(2)))
            /\ XLess(mde[i], prev.table[i].MDE)
C7_Witness ==
    /\ DoubledTraffic /\ pc = "done" /\ Len(mde) = MaxDays
    /\ IsFinite(mde[1]) /\ mde[1].sgn > 0

C9_Deterministic ==
    /\ (pc = "done" /\ prev.set /\ prev.params = params) => prev.table = Table
    /\ pc = "done" => download.data = to_csv(Table)
C9_Witness ==
    /\ pc = "done" /\ prev.set /\ prev.params = params
    /\ prev.file_name # download.file_name
    /\ Len(Table) = MaxDays /\ prev.table = Table

\* C10: for every input the sidebar widgets allow, the guard of calculate_mde
\* is never taken, every row's MDE is finite and strictly positive, and the
\* last day's MDE of the summary line is the smallest of the table.
C10_WidgetsKeepFinite ==
    /\ \A i \in Rows :
          /\ baseline_rate.num > 0 /\ df[i].SS > 0
          /\ zUsed[i] # << >>
          /\ IsFinite(mde[i]) /\ mde[i].sgn > 0
    /\ pc = "done" =>
          /\ summary.last_day = max_days
          /\ summary.last_mde = mde[Len(mde)]
          /\ \A i \in Rows : i < Len(mde) => XLess(summary.last_mde, mde[i])
C10_Witness ==
    /\ pc = "done" /\ Len(mde) = MaxDays /\ MaxDays >= 2
    /\ baseline_rate = ToProportion(1) /\ daily_traffic = 10 /\ Alpha = 1 /\ power = 99
    /\ XLess(summary.last_mde, mde[1])

====
